---- MODULE Spec2Model ----
(***************************************************************************)
(* Model of the HAPSIS avionics firmware (src/src/main.rs, src/src/lib.rs). *)
(*                                                                         *)
(* Four embassy tasks (control_task, baro_task, imu_task, log_task) are    *)
(* spawned by main and run on one cooperative executor.  A task runs from  *)
(* the point where it is polled to its next await; no other task runs in  *)
(* between.  `running` names the task whose turn it is ("idle": the         *)
(* executor is between two turns), pc[t] is the position of task t.        *)
(*                                                                         *)
(* The three statics of main.rs:20-22 are embassy_sync channels of         *)
(* capacity 4: a bounded FIFO queue.  try_send appends unless the queue    *)
(* holds 4 values, try_receive removes the head unless the queue is empty, *)
(* clear removes every value, send(..).with_timeout(..) first polls the    *)
(* send (which succeeds at once when there is room) and only then the      *)
(* timer.                                                                  *)
(*                                                                         *)
(* Spec abstracts from durations: an awaited timer may elapse whenever the *)
(* executor is idle, so the tasks interleave arbitrarily at their awaits.  *)
(* SpecTimed keeps the configured periods, in ticks of 50 ms, with task    *)
(* bodies that take no time.                                               *)
(***************************************************************************)
EXTENDS Integers, Sequences, FiniteSets, TLC

(* ---- program constants ------------------------------------------------ *)

ChannelCapacity == 4

AltBufferLen == 10

BaroRecordSize == 12

ImuRecordSize == 40

FlushThreshold == 256

U16 == 65536

\* fixed-point images of the f32 literals of the fake samples
SeaLevelPressure == 101325

FakeTemperature == 2500

FakeGravity == 981

\* periods and timeouts in ticks of 50 ms
ControlPeriod == 2

BaroPeriod == 10

ImuPeriod == 10

LogPeriod == 1

(* ---- bounds of the model ---------------------------------------------- *)

\* width of the time stamp carried by a sample: the u32 of main.rs:74 wraps
\* at 2^32, the model's wraps at TsWrap
TsWrap == 2

(* ---- names ------------------------------------------------------------ *)

Tasks == {"control", "baro", "imu", "log"}

Producers == {"baro", "imu"}

BARO_DATA_CHANNEL == "BARO_DATA_CHANNEL"

BARO_ALT_CHANNEL == "BARO_ALT_CHANNEL"

IMU_DATA_CHANNEL == "IMU_DATA_CHANNEL"

Channels == {BARO_DATA_CHANNEL, BARO_ALT_CHANNEL, IMU_DATA_CHANNEL}

VARIABLES
    main_pc,      \* position of main: the next spawn, "all_spawned", "done", "panicked"
    pc,           \* position of each task
    running,      \* whose turn it is: "main", a task, "idle" or "halted"
    chan,         \* contents of the three channels, oldest value first
    led,          \* level of the output PB7
    clock,        \* clock[t]: the time stamp the next sample of producer t reads
    baro_data,    \* `data` of baro_task
    imu_data,     \* `data` of imu_task
    alt_buffer,   \* `alt_buffer` of baro_task
    alt_avg,      \* `alt_avg` of baro_task
    send_res,     \* outcome of the current publish step of each producer
    ctl_alt,      \* outcome of the try_receive of control_task in this cycle
    buf_index,    \* `buf_index` of log_task
    flushed,      \* number of sd-card writes of log_task in this cycle
    timer,        \* ticks left until the timer of each task elapses
    log_rx,       \* the samples log_task received in this cycle, per channel
    buf_start,    \* buf_index at the start of the current cycle of log_task
    baro_trace,   \* what baro_task has done in this cycle, in order
    fed,          \* the pressures fed to the altitude filter, newest first
    unseen        \* per counted channel, the values sent after the last one received

vars == <<main_pc, pc, running, chan, led, clock, baro_data, imu_data,
          alt_buffer, alt_avg, send_res, ctl_alt, buf_index, flushed, timer,
          log_rx, buf_start, baro_trace, fed, unseen>>

(* ---- data ------------------------------------------------------------- *)

BaroData(ts) ==
    [pressure |-> SeaLevelPressure, temperature |-> FakeTemperature, time_stamp |-> ts]

ImuData(ts) ==
    [acceleration |-> <<0, 0, FakeGravity>>, gyro |-> <<0, 0, 0>>,
     mag |-> <<0, 0, 0>>, time_stamp |-> ts]

NoData == [time_stamp |-> -1]

\* 44330.0 * (1.0 - powf(pressure / 1013.25, 1.0 / 5.255)), in metres, at the
\* two pressures where the power is exact: the reference pressure (the only
\* one the fake sample carries) and 0
PressureToAltitude(p) ==
    CASE p = SeaLevelPressure -> 0
      [] p = 0 -> 44330

RotateRight(buf) ==
    [i \in 1..Len(buf) |-> IF i = 1 THEN buf[Len(buf)] ELSE buf[i - 1]]

RECURSIVE SumSeq(_)
SumSeq(s) == IF s = <<>> THEN 0 ELSE Head(s) + SumSeq(Tail(s))

\* FilterPush that overwrites the newest slot without shifting the history
FilterPushNoShift(buf, alt) == [buf EXCEPT ![1] = alt]

\* alt_buffer.rotate_right(1); alt_buffer[0] = alt
FilterPush(buf, alt) == [RotateRight(buf) EXCEPT ![1] = alt]

\* alt_sum / alt_buffer.len() as f32
FilterMean(buf) == SumSeq(buf) \div Len(buf)

(* ---- the bounded channel ---------------------------------------------- *)

IsFull(c) == Len(chan[c]) >= ChannelCapacity

IsEmpty(c) == Len(chan[c]) = 0

\* the queue after a successful send of v
Pushed(c, v) == [chan EXCEPT ![c] = Append(@, v)]

\* the queue after a successful receive
Popped(c) == [chan EXCEPT ![c] = Tail(@)]

Cleared(c) == [chan EXCEPT ![c] = <<>>]

\* unseen[c] after one more send on c, for a channel whose values are
\* counted: the count of the values sent on c after the last one its consumer
\* received.  It is kept up to ChannelCapacity, which no queue exceeds
SentOn(c) ==
    IF c \in DOMAIN unseen
    THEN [unseen EXCEPT ![c] = IF @ < ChannelCapacity THEN @ + 1 ELSE @]
    ELSE unseen

\* unseen[c] after a receive: the value received is the head, and the values
\* sent after it are those queued behind it
ReceivedHead(c) ==
    IF c \in DOMAIN unseen
    THEN [unseen EXCEPT ![c] = Len(chan[c]) - 1]
    ELSE unseen

\* what log_task has received at the start of a cycle
NoneReceived == [c \in {BARO_DATA_CHANNEL, IMU_DATA_CHANNEL} |-> <<>>]

(* ---- initial state ---------------------------------------------------- *)

\* the statics and the locals of the tasks as constructed
Constructed ==
    /\ chan = [c \in Channels |-> <<>>]
    /\ led = "High"
    /\ clock = [t \in Producers |-> 0]
    /\ baro_data = NoData
    /\ imu_data = NoData
    /\ alt_buffer = [i \in 1..AltBufferLen |-> 0]
    /\ alt_avg = 0
    /\ send_res = [t \in Producers |-> "None"]
    /\ ctl_alt = "None"
    /\ buf_index = 0
    /\ flushed = 0
    /\ timer = [t \in Tasks |-> 0]
    /\ log_rx = NoneReceived
    /\ buf_start = 0
    /\ baro_trace = <<>>
    /\ fed = <<>>

\* main is entered, no task is spawned
Entered ==
    /\ main_pc = "spawn_control"
    /\ pc = [t \in Tasks |-> "unspawned"]
    /\ running = "main"

Init ==
    /\ Entered
    /\ Constructed
    /\ unseen = <<>>

\* the same start, with the sends and receives of every channel counted
InitNumbered ==
    /\ Entered
    /\ Constructed
    /\ unseen = [c \in Channels |-> 0]

(* ---- main ------------------------------------------------------------- *)

SpawnOrder == <<"control", "baro", "imu", "log">>

SpawnPc(i) == IF i > Len(SpawnOrder) THEN "all_spawned" ELSE "spawn_" \o SpawnOrder[i]

\* _spawner.spawn(task()).unwrap(): the task is queued for its first poll; a
\* task whose only slot is taken cannot be spawned and unwrap panics
MainSpawn(i) ==
    /\ running = "main"
    /\ main_pc = SpawnPc(i)
    /\ IF pc[SpawnOrder[i]] = "unspawned"
       THEN /\ pc' = [pc EXCEPT ![SpawnOrder[i]] = "start"]
            /\ main_pc' = SpawnPc(i + 1)
            /\ UNCHANGED running
       ELSE /\ main_pc' = "panicked"
            /\ running' = "halted"
            /\ UNCHANGED pc
    /\ UNCHANGED <<chan, unseen, led, clock, baro_data, imu_data, alt_buffer, alt_avg,
                   send_res, ctl_alt, buf_index, flushed, timer>>
    /\ UNCHANGED log_rx
    /\ UNCHANGED <<buf_start, baro_trace, fed>>

\* the spawn result dropped instead of unwrapped: main goes on to the next
\* spawn although the task was not spawned
MainSpawnFailsIgnored(i) ==
    /\ running = "main"
    /\ main_pc = SpawnPc(i)
    /\ main_pc' = SpawnPc(i + 1)
    /\ UNCHANGED <<pc, running, chan, unseen, led, clock, baro_data, imu_data, alt_buffer,
                   alt_avg, send_res, ctl_alt, buf_index, flushed, timer>>
    /\ UNCHANGED log_rx
    /\ UNCHANGED <<buf_start, baro_trace, fed>>

\* _spawner.spawn(task()) returns Err(SpawnError) and unwrap panics: the
\* task is not queued, main does not reach the statements after the spawn and
\* the panic handler stops the program
MainSpawnFails(i) ==
    /\ running = "main"
    /\ main_pc = SpawnPc(i)
    /\ main_pc' = "panicked"
    /\ running' = "halted"
    /\ UNCHANGED <<pc, chan, unseen, led, clock, baro_data, imu_data, alt_buffer, alt_avg,
                   send_res, ctl_alt, buf_index, flushed, timer>>
    /\ UNCHANGED log_rx
    /\ UNCHANGED <<buf_start, baro_trace, fed>>

\* info!("All tasks spawned"); main returns
MainDone ==
    /\ running = "main"
    /\ main_pc = "all_spawned"
    /\ main_pc' = "done"
    /\ running' = "idle"
    /\ UNCHANGED <<pc, chan, unseen, led, clock, baro_data, imu_data, alt_buffer, alt_avg,
                   send_res, ctl_alt, buf_index, flushed, timer>>
    /\ UNCHANGED log_rx
    /\ UNCHANGED <<buf_start, baro_trace, fed>>

(* ---- the executor ----------------------------------------------------- *)

\* position of a task after the await it is suspended at completes
Resumed(t) == IF pc[t] \in {"start", "timer"} THEN "loop" ELSE pc[t]

\* the executor polls task t: its first poll, or the await it is suspended at
\* is ready
Wake(t) ==
    /\ running = "idle"
    /\ pc[t] # "unspawned"
    /\ running' = t
    /\ pc' = [pc EXCEPT ![t] = Resumed(t)]
    /\ timer' = [timer EXCEPT ![t] = 0]
    /\ UNCHANGED <<main_pc, chan, unseen, led, clock, baro_data, imu_data, alt_buffer,
                   alt_avg, send_res, ctl_alt, buf_index, flushed>>
    /\ UNCHANGED log_rx
    /\ UNCHANGED <<buf_start, baro_trace, fed>>

\* the same, when the timer the task awaits has elapsed
WakeTimed(t) ==
    /\ timer[t] = 0
    /\ Wake(t)

\* 50 ms pass while every task waits for its timer
Tick ==
    /\ running = "idle"
    /\ \A t \in Tasks : timer[t] > 0
    /\ timer' = [t \in Tasks |-> timer[t] - 1]
    /\ UNCHANGED <<main_pc, pc, running, chan, unseen, led, clock, baro_data, imu_data,
                   alt_buffer, alt_avg, send_res, ctl_alt, buf_index, flushed>>
    /\ UNCHANGED log_rx
    /\ UNCHANGED <<buf_start, baro_trace, fed>>

\* Timer::after(period).await
Suspend(t, period) ==
    /\ pc' = [pc EXCEPT ![t] = "timer"]
    /\ timer' = [timer EXCEPT ![t] = period]
    /\ running' = "idle"

(* ---- control_task ----------------------------------------------------- *)

\* led.set_low()
CtlActuate ==
    /\ running = "control"
    /\ pc["control"] = "loop"
    /\ led' = "Low"
    /\ pc' = [pc EXCEPT !["control"] = "poll"]
    /\ UNCHANGED <<main_pc, running, chan, unseen, clock, baro_data, imu_data, alt_buffer,
                   alt_avg, send_res, ctl_alt, buf_index, flushed, timer>>
    /\ UNCHANGED log_rx
    /\ UNCHANGED <<buf_start, baro_trace, fed>>

\* CtlPoll that awaits the altitude (receive().await) instead of polling: on
\* an empty channel the task is suspended in the receive
CtlPollBlocking ==
    /\ running = "control"
    /\ pc["control"] = "poll"
    /\ IF IsEmpty(BARO_ALT_CHANNEL)
       THEN /\ running' = "idle"
            /\ UNCHANGED <<chan, unseen, ctl_alt, pc>>
       ELSE /\ ctl_alt' = "Ok"
            /\ chan' = Popped(BARO_ALT_CHANNEL)
            /\ unseen' = ReceivedHead(BARO_ALT_CHANNEL)
            /\ pc' = [pc EXCEPT !["control"] = "sleep"]
            /\ UNCHANGED running
    /\ UNCHANGED <<main_pc, led, clock, baro_data, imu_data, alt_buffer,
                   alt_avg, send_res, buf_index, flushed, timer, log_rx>>
    /\ UNCHANGED <<buf_start, baro_trace, fed>>

\* CtlPoll as a catch-up drain (while let instead of if let): control_task
\* receives until the channel is empty
CtlPollDrain ==
    /\ running = "control"
    /\ pc["control"] = "poll"
    /\ IF IsEmpty(BARO_ALT_CHANNEL)
       THEN /\ ctl_alt' = IF ctl_alt = "None" THEN "Empty" ELSE ctl_alt
            /\ pc' = [pc EXCEPT !["control"] = "sleep"]
            /\ UNCHANGED chan
            /\ UNCHANGED unseen
       ELSE /\ ctl_alt' = "Ok"
            /\ chan' = Popped(BARO_ALT_CHANNEL)
            /\ unseen' = ReceivedHead(BARO_ALT_CHANNEL)
            /\ UNCHANGED pc
    /\ UNCHANGED <<main_pc, running, led, clock, baro_data, imu_data, alt_buffer,
                   alt_avg, send_res, buf_index, flushed, timer>>
    /\ UNCHANGED log_rx
    /\ UNCHANGED <<buf_start, baro_trace, fed>>

\* CtlPoll that reads the head without removing it: the next poll receives
\* the same altitude again
CtlPollPeek ==
    /\ running = "control"
    /\ pc["control"] = "poll"
    /\ IF IsEmpty(BARO_ALT_CHANNEL)
       THEN /\ ctl_alt' = "Empty"
            /\ UNCHANGED unseen
       ELSE /\ ctl_alt' = "Ok"
            /\ unseen' = ReceivedHead(BARO_ALT_CHANNEL)
    /\ pc' = [pc EXCEPT !["control"] = "sleep"]
    /\ UNCHANGED <<main_pc, running, chan, led, clock, baro_data, imu_data, alt_buffer,
                   alt_avg, send_res, buf_index, flushed, timer>>
    /\ UNCHANGED log_rx
    /\ UNCHANGED <<buf_start, baro_trace, fed>>

\* if let Ok(alt) = BARO_ALT_CHANNEL.try_receive() { info!(..) }
CtlPoll ==
    /\ running = "control"
    /\ pc["control"] = "poll"
    /\ IF IsEmpty(BARO_ALT_CHANNEL)
       THEN /\ ctl_alt' = "Empty"
            /\ UNCHANGED chan
            /\ UNCHANGED unseen
       ELSE /\ ctl_alt' = "Ok"
            /\ chan' = Popped(BARO_ALT_CHANNEL)
            /\ unseen' = ReceivedHead(BARO_ALT_CHANNEL)
    /\ pc' = [pc EXCEPT !["control"] = "sleep"]
    /\ UNCHANGED <<main_pc, running, led, clock, baro_data, imu_data, alt_buffer,
                   alt_avg, send_res, buf_index, flushed, timer>>
    /\ UNCHANGED log_rx
    /\ UNCHANGED <<buf_start, baro_trace, fed>>

\* Timer::after(Duration::from_millis(100)).await
CtlSleep ==
    /\ running = "control"
    /\ pc["control"] = "sleep"
    /\ Suspend("control", ControlPeriod)
    /\ ctl_alt' = "None"
    /\ UNCHANGED <<main_pc, chan, unseen, led, clock, baro_data, imu_data, alt_buffer,
                   alt_avg, send_res, buf_index, flushed>>
    /\ UNCHANGED log_rx
    /\ UNCHANGED <<buf_start, baro_trace, fed>>

(* ---- baro_task -------------------------------------------------------- *)

\* the value baro_task publishes on BARO_ALT_CHANNEL: alt_avg.  The channel
\* carries the f32 alone; time_stamp labels it with the raw sample it was
\* computed from, so that equal altitudes of different samples stay apart
FilteredAltitude == [alt |-> alt_avg, time_stamp |-> baro_data.time_stamp]

\* let time_stamp = Instant::now().as_micros() as u32; let data = BaroData {..}
BaroSample ==
    /\ running = "baro"
    /\ pc["baro"] = "loop"
    /\ baro_data' = BaroData(clock["baro"])
    /\ clock' = [clock EXCEPT !["baro"] = (@ + 1) % TsWrap]
    /\ pc' = [pc EXCEPT !["baro"] = "try_send"]
    /\ UNCHANGED <<main_pc, running, chan, unseen, led, imu_data, alt_buffer, alt_avg,
                   send_res, ctl_alt, buf_index, flushed, timer>>
    /\ UNCHANGED log_rx
    /\ UNCHANGED <<buf_start, baro_trace, fed>>

\* BaroTrySend that awaits room in a full channel (send(data).await, with
\* neither clear nor timeout): the task is suspended in the send
BaroTrySendBlocking ==
    /\ running = "baro"
    /\ pc["baro"] = "try_send"
    /\ IF IsFull(BARO_DATA_CHANNEL)
       THEN /\ running' = "idle"
            /\ UNCHANGED <<send_res, pc, chan, unseen>>
       ELSE /\ send_res' = [send_res EXCEPT !["baro"] = "Ok"]
            /\ pc' = [pc EXCEPT !["baro"] = "filter"]
            /\ chan' = Pushed(BARO_DATA_CHANNEL, baro_data)
            /\ unseen' = SentOn(BARO_DATA_CHANNEL)
            /\ UNCHANGED running
    /\ UNCHANGED <<main_pc, led, clock, baro_data, imu_data, alt_buffer,
                   alt_avg, ctl_alt, buf_index, flushed, timer, log_rx>>
    /\ baro_trace' = IF IsFull(BARO_DATA_CHANNEL) THEN baro_trace ELSE Append(baro_trace, "raw")
    /\ UNCHANGED <<buf_start, fed>>

\* BaroTrySend without the capacity check: the sample is queued also when the
\* channel holds ChannelCapacity values
BaroTrySendUnbounded ==
    /\ running = "baro"
    /\ pc["baro"] = "try_send"
    /\ send_res' = [send_res EXCEPT !["baro"] = "Ok"]
    /\ pc' = [pc EXCEPT !["baro"] = "filter"]
    /\ chan' = Pushed(BARO_DATA_CHANNEL, baro_data)
    /\ unseen' = SentOn(BARO_DATA_CHANNEL)
    /\ UNCHANGED <<main_pc, running, led, clock, baro_data, imu_data, alt_buffer,
                   alt_avg, ctl_alt, buf_index, flushed, timer, log_rx>>
    /\ baro_trace' = Append(baro_trace, "raw")
    /\ UNCHANGED <<buf_start, fed>>

\* match BARO_DATA_CHANNEL.try_send(data)
BaroTrySend ==
    /\ running = "baro"
    /\ pc["baro"] = "try_send"
    /\ IF IsFull(BARO_DATA_CHANNEL)
       THEN /\ send_res' = [send_res EXCEPT !["baro"] = "Full"]
            /\ pc' = [pc EXCEPT !["baro"] = "clear"]
            /\ UNCHANGED chan
            /\ UNCHANGED unseen
       ELSE /\ send_res' = [send_res EXCEPT !["baro"] = "Ok"]
            /\ pc' = [pc EXCEPT !["baro"] = "filter"]
            /\ chan' = Pushed(BARO_DATA_CHANNEL, baro_data)
            /\ unseen' = SentOn(BARO_DATA_CHANNEL)
    /\ UNCHANGED <<main_pc, running, led, clock, baro_data, imu_data, alt_buffer,
                   alt_avg, ctl_alt, buf_index, flushed, timer>>
    /\ UNCHANGED log_rx
    /\ baro_trace' = Append(baro_trace, "raw")
    /\ UNCHANGED <<buf_start, fed>>

\* BaroClear that frees one slot only: the oldest sample is discarded
BaroClearOldest ==
    /\ running = "baro"
    /\ pc["baro"] = "clear"
    /\ chan' = Popped(BARO_DATA_CHANNEL)
    /\ UNCHANGED unseen
    /\ pc' = [pc EXCEPT !["baro"] = "send"]
    /\ UNCHANGED <<main_pc, running, led, clock, baro_data, imu_data, alt_buffer,
                   alt_avg, send_res, ctl_alt, buf_index, flushed, timer, log_rx>>
    /\ UNCHANGED <<buf_start, baro_trace, fed>>

\* BARO_DATA_CHANNEL.clear()
BaroClear ==
    /\ running = "baro"
    /\ pc["baro"] = "clear"
    /\ chan' = Cleared(BARO_DATA_CHANNEL)
    /\ UNCHANGED unseen
    /\ pc' = [pc EXCEPT !["baro"] = "send"]
    /\ UNCHANGED <<main_pc, running, led, clock, baro_data, imu_data, alt_buffer,
                   alt_avg, send_res, ctl_alt, buf_index, flushed, timer>>
    /\ UNCHANGED log_rx
    /\ UNCHANGED <<buf_start, baro_trace, fed>>

\* BaroSend after which baro_task goes on to the altitude publish without
\* the filter update: on the overflow path the sample is not filtered
BaroSendSkipsFilter ==
    /\ running = "baro"
    /\ pc["baro"] = "send"
    /\ IF ~IsFull(BARO_DATA_CHANNEL)
       THEN /\ chan' = Pushed(BARO_DATA_CHANNEL, baro_data)
            /\ unseen' = SentOn(BARO_DATA_CHANNEL)
            /\ send_res' = [send_res EXCEPT !["baro"] = "Sent"]
            /\ pc' = [pc EXCEPT !["baro"] = "alt_try_send"]
            /\ UNCHANGED running
       ELSE /\ UNCHANGED chan
            /\ UNCHANGED unseen
            /\ \/ /\ send_res' = [send_res EXCEPT !["baro"] = "Timeout"]
                  /\ pc' = [pc EXCEPT !["baro"] = "alt_try_send"]
                  /\ UNCHANGED running
               \/ /\ running' = "idle"
                  /\ UNCHANGED <<send_res, pc>>
    /\ UNCHANGED <<main_pc, led, clock, baro_data, imu_data, alt_buffer,
                   alt_avg, ctl_alt, buf_index, flushed, timer>>
    /\ UNCHANGED log_rx
    /\ UNCHANGED <<buf_start, baro_trace, fed>>

\* BARO_DATA_CHANNEL.send(data).with_timeout(200 ms).await.ok(): a poll of the
\* send; with no room the timeout has elapsed (the sample is dropped) or the
\* task stays suspended in the send
BaroSend ==
    /\ running = "baro"
    /\ pc["baro"] = "send"
    /\ IF ~IsFull(BARO_DATA_CHANNEL)
       THEN /\ chan' = Pushed(BARO_DATA_CHANNEL, baro_data)
            /\ unseen' = SentOn(BARO_DATA_CHANNEL)
            /\ send_res' = [send_res EXCEPT !["baro"] = "Sent"]
            /\ pc' = [pc EXCEPT !["baro"] = "filter"]
            /\ UNCHANGED running
       ELSE /\ UNCHANGED chan
            /\ UNCHANGED unseen
            /\ \/ /\ send_res' = [send_res EXCEPT !["baro"] = "Timeout"]
                  /\ pc' = [pc EXCEPT !["baro"] = "filter"]
                  /\ UNCHANGED running
               \/ /\ running' = "idle"
                  /\ UNCHANGED <<send_res, pc>>
    /\ UNCHANGED <<main_pc, led, clock, baro_data, imu_data, alt_buffer,
                   alt_avg, ctl_alt, buf_index, flushed, timer>>
    /\ UNCHANGED log_rx
    /\ UNCHANGED <<buf_start, baro_trace, fed>>

\* alt_buffer.rotate_right(1); alt_buffer[0] = ..; alt_avg = sum / len
BaroFilter ==
    /\ running = "baro"
    /\ pc["baro"] = "filter"
    /\ alt_buffer' = FilterPush(alt_buffer, PressureToAltitude(baro_data.pressure))
    /\ alt_avg' = FilterMean(alt_buffer')
    /\ pc' = [pc EXCEPT !["baro"] = "alt_try_send"]
    /\ UNCHANGED <<main_pc, running, chan, unseen, led, clock, baro_data, imu_data,
                   send_res, ctl_alt, buf_index, flushed, timer>>
    /\ UNCHANGED log_rx
    /\ baro_trace' = Append(baro_trace, "filter")
    /\ UNCHANGED <<buf_start, fed>>

\* AltTrySend that keeps only the newest altitude: it empties the channel
\* before every send, full or not
AltTrySendLatest ==
    /\ running = "baro"
    /\ pc["baro"] = "alt_try_send"
    /\ send_res' = [send_res EXCEPT !["baro"] = "Ok"]
    /\ pc' = [pc EXCEPT !["baro"] = "sleep"]
    /\ chan' = [chan EXCEPT ![BARO_ALT_CHANNEL] = <<FilteredAltitude>>]
    /\ unseen' = SentOn(BARO_ALT_CHANNEL)
    /\ UNCHANGED <<main_pc, running, led, clock, baro_data, imu_data, alt_buffer,
                   alt_avg, ctl_alt, buf_index, flushed, timer>>
    /\ UNCHANGED log_rx
    /\ baro_trace' = Append(baro_trace, "alt")
    /\ UNCHANGED <<buf_start, fed>>

\* match BARO_ALT_CHANNEL.try_send(alt_avg)
AltTrySend ==
    /\ running = "baro"
    /\ pc["baro"] = "alt_try_send"
    /\ IF IsFull(BARO_ALT_CHANNEL)
       THEN /\ send_res' = [send_res EXCEPT !["baro"] = "Full"]
            /\ pc' = [pc EXCEPT !["baro"] = "alt_clear"]
            /\ UNCHANGED chan
            /\ UNCHANGED unseen
       ELSE /\ send_res' = [send_res EXCEPT !["baro"] = "Ok"]
            /\ pc' = [pc EXCEPT !["baro"] = "sleep"]
            /\ chan' = Pushed(BARO_ALT_CHANNEL, FilteredAltitude)
            /\ unseen' = SentOn(BARO_ALT_CHANNEL)
    /\ UNCHANGED <<main_pc, running, led, clock, baro_data, imu_data, alt_buffer,
                   alt_avg, ctl_alt, buf_index, flushed, timer>>
    /\ UNCHANGED log_rx
    /\ baro_trace' = Append(baro_trace, "alt")
    /\ UNCHANGED <<buf_start, fed>>

\* AltClear that empties the raw barometric channel along with the altitude
\* channel
AltClearBoth ==
    /\ running = "baro"
    /\ pc["baro"] = "alt_clear"
    /\ chan' = [chan EXCEPT ![BARO_ALT_CHANNEL] = <<>>, ![BARO_DATA_CHANNEL] = <<>>]
    /\ UNCHANGED unseen
    /\ pc' = [pc EXCEPT !["baro"] = "alt_send"]
    /\ UNCHANGED <<main_pc, running, led, clock, baro_data, imu_data, alt_buffer,
                   alt_avg, send_res, ctl_alt, buf_index, flushed, timer>>
    /\ UNCHANGED log_rx
    /\ UNCHANGED <<buf_start, baro_trace, fed>>

\* BARO_ALT_CHANNEL.clear()
AltClear ==
    /\ running = "baro"
    /\ pc["baro"] = "alt_clear"
    /\ chan' = Cleared(BARO_ALT_CHANNEL)
    /\ UNCHANGED unseen
    /\ pc' = [pc EXCEPT !["baro"] = "alt_send"]
    /\ UNCHANGED <<main_pc, running, led, clock, baro_data, imu_data, alt_buffer,
                   alt_avg, send_res, ctl_alt, buf_index, flushed, timer>>
    /\ UNCHANGED log_rx
    /\ UNCHANGED <<buf_start, baro_trace, fed>>

\* BARO_ALT_CHANNEL.send(alt_avg).with_timeout(200 ms).await.ok()
AltSend ==
    /\ running = "baro"
    /\ pc["baro"] = "alt_send"
    /\ IF ~IsFull(BARO_ALT_CHANNEL)
       THEN /\ chan' = Pushed(BARO_ALT_CHANNEL, FilteredAltitude)
            /\ unseen' = SentOn(BARO_ALT_CHANNEL)
            /\ send_res' = [send_res EXCEPT !["baro"] = "Sent"]
            /\ pc' = [pc EXCEPT !["baro"] = "sleep"]
            /\ UNCHANGED running
       ELSE /\ UNCHANGED chan
            /\ UNCHANGED unseen
            /\ \/ /\ send_res' = [send_res EXCEPT !["baro"] = "Timeout"]
                  /\ pc' = [pc EXCEPT !["baro"] = "sleep"]
                  /\ UNCHANGED running
               \/ /\ running' = "idle"
                  /\ UNCHANGED <<send_res, pc>>
    /\ UNCHANGED <<main_pc, led, clock, baro_data, imu_data, alt_buffer,
                   alt_avg, ctl_alt, buf_index, flushed, timer>>
    /\ UNCHANGED log_rx
    /\ UNCHANGED <<buf_start, baro_trace, fed>>

\* Timer::after(Duration::from_millis(500)).await
BaroSleep ==
    /\ running = "baro"
    /\ pc["baro"] = "sleep"
    /\ Suspend("baro", BaroPeriod)
    /\ send_res' = [send_res EXCEPT !["baro"] = "None"]
    /\ UNCHANGED <<main_pc, chan, unseen, led, clock, baro_data, imu_data, alt_buffer,
                   alt_avg, ctl_alt, buf_index, flushed>>
    /\ UNCHANGED log_rx
    /\ baro_trace' = <<>>
    /\ UNCHANGED <<buf_start, fed>>

(* ---- imu_task --------------------------------------------------------- *)

\* let time_stamp = Instant::now().as_micros() as u32; let data = ImuData {..}
ImuSample ==
    /\ running = "imu"
    /\ pc["imu"] = "loop"
    /\ imu_data' = ImuData(clock["imu"])
    /\ clock' = [clock EXCEPT !["imu"] = (@ + 1) % TsWrap]
    /\ pc' = [pc EXCEPT !["imu"] = "try_send"]
    /\ UNCHANGED <<main_pc, running, chan, unseen, led, baro_data, alt_buffer, alt_avg,
                   send_res, ctl_alt, buf_index, flushed, timer>>
    /\ UNCHANGED log_rx
    /\ UNCHANGED <<buf_start, baro_trace, fed>>

\* ImuTrySend on a ring that overwrites: a full channel drops its oldest
\* sample and takes the new one
ImuTrySendOverwrite ==
    /\ running = "imu"
    /\ pc["imu"] = "try_send"
    /\ send_res' = [send_res EXCEPT !["imu"] = "Ok"]
    /\ pc' = [pc EXCEPT !["imu"] = "sleep"]
    /\ chan' = [chan EXCEPT ![IMU_DATA_CHANNEL] =
                  Append(IF IsFull(IMU_DATA_CHANNEL) THEN Tail(@) ELSE @, imu_data)]
    /\ unseen' = SentOn(IMU_DATA_CHANNEL)
    /\ UNCHANGED <<main_pc, running, led, clock, baro_data, imu_data, alt_buffer,
                   alt_avg, ctl_alt, buf_index, flushed, timer, log_rx>>
    /\ UNCHANGED <<buf_start, baro_trace, fed>>

\* match IMU_DATA_CHANNEL.try_send(data)
ImuTrySend ==
    /\ running = "imu"
    /\ pc["imu"] = "try_send"
    /\ IF IsFull(IMU_DATA_CHANNEL)
       THEN /\ send_res' = [send_res EXCEPT !["imu"] = "Full"]
            /\ pc' = [pc EXCEPT !["imu"] = "clear"]
            /\ UNCHANGED chan
            /\ UNCHANGED unseen
       ELSE /\ send_res' = [send_res EXCEPT !["imu"] = "Ok"]
            /\ pc' = [pc EXCEPT !["imu"] = "sleep"]
            /\ chan' = Pushed(IMU_DATA_CHANNEL, imu_data)
            /\ unseen' = SentOn(IMU_DATA_CHANNEL)
    /\ UNCHANGED <<main_pc, running, led, clock, baro_data, imu_data, alt_buffer,
                   alt_avg, ctl_alt, buf_index, flushed, timer>>
    /\ UNCHANGED log_rx
    /\ UNCHANGED <<buf_start, baro_trace, fed>>

\* ImuClear that keeps the newest queued sample
ImuClearKeepNewest ==
    /\ running = "imu"
    /\ pc["imu"] = "clear"
    /\ chan' = [chan EXCEPT ![IMU_DATA_CHANNEL] = <<@[Len(@)]>>]
    /\ UNCHANGED unseen
    /\ pc' = [pc EXCEPT !["imu"] = "send"]
    /\ UNCHANGED <<main_pc, running, led, clock, baro_data, imu_data, alt_buffer,
                   alt_avg, send_res, ctl_alt, buf_index, flushed, timer, log_rx>>
    /\ UNCHANGED <<buf_start, baro_trace, fed>>

\* ImuClear that leaves the channel as it is: the send that follows finds
\* it full
ImuClearSkipped ==
    /\ running = "imu"
    /\ pc["imu"] = "clear"
    /\ pc' = [pc EXCEPT !["imu"] = "send"]
    /\ UNCHANGED <<main_pc, running, chan, unseen, led, clock, baro_data, imu_data,
                   alt_buffer, alt_avg, send_res, ctl_alt, buf_index, flushed, timer>>
    /\ UNCHANGED log_rx
    /\ UNCHANGED <<buf_start, baro_trace, fed>>

\* IMU_DATA_CHANNEL.clear()
ImuClear ==
    /\ running = "imu"
    /\ pc["imu"] = "clear"
    /\ chan' = Cleared(IMU_DATA_CHANNEL)
    /\ UNCHANGED unseen
    /\ pc' = [pc EXCEPT !["imu"] = "send"]
    /\ UNCHANGED <<main_pc, running, led, clock, baro_data, imu_data, alt_buffer,
                   alt_avg, send_res, ctl_alt, buf_index, flushed, timer>>
    /\ UNCHANGED log_rx
    /\ UNCHANGED <<buf_start, baro_trace, fed>>

\* IMU_DATA_CHANNEL.send(data).with_timeout(50 ms).await.ok()
ImuSend ==
    /\ running = "imu"
    /\ pc["imu"] = "send"
    /\ IF ~IsFull(IMU_DATA_CHANNEL)
       THEN /\ chan' = Pushed(IMU_DATA_CHANNEL, imu_data)
            /\ unseen' = SentOn(IMU_DATA_CHANNEL)
            /\ send_res' = [send_res EXCEPT !["imu"] = "Sent"]
            /\ pc' = [pc EXCEPT !["imu"] = "sleep"]
            /\ UNCHANGED running
       ELSE /\ UNCHANGED chan
            /\ UNCHANGED unseen
            /\ \/ /\ send_res' = [send_res EXCEPT !["imu"] = "Timeout"]
                  /\ pc' = [pc EXCEPT !["imu"] = "sleep"]
                  /\ UNCHANGED running
               \/ /\ running' = "idle"
                  /\ UNCHANGED <<send_res, pc>>
    /\ UNCHANGED <<main_pc, led, clock, baro_data, imu_data, alt_buffer,
                   alt_avg, ctl_alt, buf_index, flushed, timer>>
    /\ UNCHANGED log_rx
    /\ UNCHANGED <<buf_start, baro_trace, fed>>

\* Timer::after(Duration::from_millis(500)).await
ImuSleep ==
    /\ running = "imu"
    /\ pc["imu"] = "sleep"
    /\ Suspend("imu", ImuPeriod)
    /\ send_res' = [send_res EXCEPT !["imu"] = "None"]
    /\ UNCHANGED <<main_pc, chan, unseen, led, clock, baro_data, imu_data, alt_buffer,
                   alt_avg, ctl_alt, buf_index, flushed>>
    /\ UNCHANGED log_rx
    /\ UNCHANGED <<buf_start, baro_trace, fed>>

(* ---- log_task --------------------------------------------------------- *)

\* LogRecvBaro that takes the newest queued sample instead of the oldest
LogRecvBaroNewest ==
    /\ running = "log"
    /\ pc["log"] = "loop"
    /\ IF IsEmpty(BARO_DATA_CHANNEL)
       THEN /\ pc' = [pc EXCEPT !["log"] = "drain_imu"]
            /\ UNCHANGED <<chan, unseen, buf_index, log_rx>>
       ELSE /\ chan' = [chan EXCEPT ![BARO_DATA_CHANNEL] = SubSeq(@, 1, Len(@) - 1)]
            /\ unseen' = IF BARO_DATA_CHANNEL \in DOMAIN unseen
                         THEN [unseen EXCEPT ![BARO_DATA_CHANNEL] = 0]
                         ELSE unseen
            /\ log_rx' = [log_rx EXCEPT ![BARO_DATA_CHANNEL] =
                            Append(@, chan[BARO_DATA_CHANNEL][Len(chan[BARO_DATA_CHANNEL])])]
            /\ buf_index' = (buf_index + BaroRecordSize) % U16
            /\ UNCHANGED pc
    /\ UNCHANGED <<main_pc, running, led, clock, baro_data, imu_data, alt_buffer,
                   alt_avg, send_res, ctl_alt, flushed, timer>>
    /\ UNCHANGED <<buf_start, baro_trace, fed>>

\* while let Ok(data) = BARO_DATA_CHANNEL.try_receive() { buf_index += 12; }
LogRecvBaro ==
    /\ running = "log"
    /\ pc["log"] = "loop"
    /\ IF IsEmpty(BARO_DATA_CHANNEL)
       THEN /\ pc' = [pc EXCEPT !["log"] = "drain_imu"]
            /\ UNCHANGED <<chan, unseen, buf_index, log_rx>>
       ELSE /\ chan' = Popped(BARO_DATA_CHANNEL)
            /\ unseen' = ReceivedHead(BARO_DATA_CHANNEL)
            /\ log_rx' = [log_rx EXCEPT ![BARO_DATA_CHANNEL] = Append(@, Head(chan[BARO_DATA_CHANNEL]))]
            /\ buf_index' = (buf_index + BaroRecordSize) % U16
            /\ UNCHANGED pc
    /\ UNCHANGED <<main_pc, running, led, clock, baro_data, imu_data, alt_buffer,
                   alt_avg, send_res, ctl_alt, flushed, timer>>
    /\ UNCHANGED <<buf_start, baro_trace, fed>>

\* LogRecvImu as a single poll (if let instead of while let): at most one
\* inertial sample is received per cycle
LogRecvImuOnce ==
    /\ running = "log"
    /\ pc["log"] = "drain_imu"
    /\ IF IsEmpty(IMU_DATA_CHANNEL)
       THEN UNCHANGED <<chan, unseen, buf_index, log_rx>>
       ELSE /\ chan' = Popped(IMU_DATA_CHANNEL)
            /\ unseen' = ReceivedHead(IMU_DATA_CHANNEL)
            /\ log_rx' = [log_rx EXCEPT ![IMU_DATA_CHANNEL] = Append(@, Head(chan[IMU_DATA_CHANNEL]))]
            /\ buf_index' = (buf_index + ImuRecordSize) % U16
    /\ pc' = [pc EXCEPT !["log"] = "flush"]
    /\ UNCHANGED <<main_pc, running, led, clock, baro_data, imu_data, alt_buffer,
                   alt_avg, send_res, ctl_alt, flushed, timer>>
    /\ UNCHANGED <<buf_start, baro_trace, fed>>

\* while let Ok(data) = IMU_DATA_CHANNEL.try_receive() { buf_index += 40; }
LogRecvImu ==
    /\ running = "log"
    /\ pc["log"] = "drain_imu"
    /\ IF IsEmpty(IMU_DATA_CHANNEL)
       THEN /\ pc' = [pc EXCEPT !["log"] = "flush"]
            /\ UNCHANGED <<chan, unseen, buf_index, log_rx>>
       ELSE /\ chan' = Popped(IMU_DATA_CHANNEL)
            /\ unseen' = ReceivedHead(IMU_DATA_CHANNEL)
            /\ log_rx' = [log_rx EXCEPT ![IMU_DATA_CHANNEL] = Append(@, Head(chan[IMU_DATA_CHANNEL]))]
            /\ buf_index' = (buf_index + ImuRecordSize) % U16
            /\ UNCHANGED pc
    /\ UNCHANGED <<main_pc, running, led, clock, baro_data, imu_data, alt_buffer,
                   alt_avg, send_res, ctl_alt, flushed, timer>>
    /\ UNCHANGED <<buf_start, baro_trace, fed>>

\* LogFlush that restarts the counter from zero after a write
LogFlushReset ==
    /\ running = "log"
    /\ pc["log"] = "flush"
    /\ IF buf_index >= FlushThreshold
       THEN /\ buf_index' = 0
            /\ flushed' = flushed + 1
       ELSE UNCHANGED <<buf_index, flushed>>
    /\ pc' = [pc EXCEPT !["log"] = "sleep"]
    /\ UNCHANGED <<main_pc, running, chan, unseen, led, clock, baro_data, imu_data,
                   alt_buffer, alt_avg, send_res, ctl_alt, timer, log_rx>>
    /\ UNCHANGED <<buf_start, baro_trace, fed>>

\* LogFlush that writes only when the counter exceeds the threshold
\* (> instead of >=)
LogFlushAbove ==
    /\ running = "log"
    /\ pc["log"] = "flush"
    /\ IF buf_index > FlushThreshold
       THEN /\ buf_index' = buf_index - FlushThreshold
            /\ flushed' = flushed + 1
       ELSE UNCHANGED <<buf_index, flushed>>
    /\ pc' = [pc EXCEPT !["log"] = "sleep"]
    /\ UNCHANGED <<main_pc, running, chan, unseen, led, clock, baro_data, imu_data,
                   alt_buffer, alt_avg, send_res, ctl_alt, timer>>
    /\ UNCHANGED log_rx
    /\ UNCHANGED <<buf_start, baro_trace, fed>>

\* if buf_index >= 256 { info!("buffer full, writing to sd card"); buf_index -= 256; }
LogFlush ==
    /\ running = "log"
    /\ pc["log"] = "flush"
    /\ IF buf_index >= FlushThreshold
       THEN /\ buf_index' = buf_index - FlushThreshold
            /\ flushed' = flushed + 1
       ELSE UNCHANGED <<buf_index, flushed>>
    /\ pc' = [pc EXCEPT !["log"] = "sleep"]
    /\ UNCHANGED <<main_pc, running, chan, unseen, led, clock, baro_data, imu_data,
                   alt_buffer, alt_avg, send_res, ctl_alt, timer>>
    /\ UNCHANGED log_rx
    /\ UNCHANGED <<buf_start, baro_trace, fed>>

\* LogSleep with a period of 2.5 s instead of 50 ms
LogSleepSlow ==
    /\ running = "log"
    /\ pc["log"] = "sleep"
    /\ Suspend("log", 50 * LogPeriod)
    /\ flushed' = 0
    /\ log_rx' = NoneReceived
    /\ UNCHANGED <<main_pc, chan, unseen, led, clock, baro_data, imu_data, alt_buffer,
                   alt_avg, send_res, ctl_alt, buf_index>>
    /\ buf_start' = buf_index
    /\ UNCHANGED <<baro_trace, fed>>

\* Timer::after(Duration::from_millis(50)).await
LogSleep ==
    /\ running = "log"
    /\ pc["log"] = "sleep"
    /\ Suspend("log", LogPeriod)
    /\ flushed' = 0
    /\ log_rx' = NoneReceived
    /\ UNCHANGED <<main_pc, chan, unseen, led, clock, baro_data, imu_data, alt_buffer,
                   alt_avg, send_res, ctl_alt, buf_index>>
    /\ buf_start' = buf_index
    /\ UNCHANGED <<baro_trace, fed>>

(* ---- specifications --------------------------------------------------- *)

MainStep == (\E i \in 1..Len(SpawnOrder) : MainSpawn(i)) \/ MainDone

ControlStep == CtlActuate \/ CtlPoll \/ CtlSleep

BaroStep ==
    \/ BaroSample \/ BaroTrySend \/ BaroClear \/ BaroSend \/ BaroFilter
    \/ AltTrySend \/ AltClear \/ AltSend \/ BaroSleep

ImuStep == ImuSample \/ ImuTrySend \/ ImuClear \/ ImuSend \/ ImuSleep

LogStep == LogRecvBaro \/ LogRecvImu \/ LogFlush \/ LogSleep

TaskStep == ControlStep \/ BaroStep \/ ImuStep \/ LogStep

Next == MainStep \/ TaskStep \/ (\E t \in Tasks : Wake(t))

Spec == Init /\ [][Next]_vars

\* the steps of the tasks that do not lie on an overflow path
NormalStep ==
    \/ ControlStep
    \/ BaroSample \/ BaroTrySend \/ BaroFilter \/ AltTrySend \/ BaroSleep
    \/ ImuSample \/ ImuTrySend \/ ImuSleep
    \/ LogStep

NextTimed == MainStep \/ NormalStep \/ (\E t \in Tasks : WakeTimed(t)) \/ Tick

SpecTimed == Init /\ [][NextTimed]_vars /\ WF_vars(NextTimed)

\* the program with a spawner whose spawn may return an error
NextSpawn == Next \/ (\E i \in 1..Len(SpawnOrder) : MainSpawnFails(i))

SpecSpawn == Init /\ [][NextSpawn]_vars

\* the program with the values of every channel counted
SpecNumbered == InitNumbered /\ [][Next]_vars

(* ---- the altitude filter alone ---------------------------------------- *)

\* the pressures the sensor is taken to deliver: the reference pressure
\* (altitude 0) and vacuum (altitude 44330)
FedPressures == {0, SeaLevelPressure}

\* baro_task at the start of its loop, the history zeroed
InitFilter ==
    /\ main_pc = "done"
    /\ pc = [t \in Tasks |-> IF t = "baro" THEN "loop" ELSE "start"]
    /\ running = "baro"
    /\ Constructed
    /\ unseen = <<>>

\* the next sample has pressure p; baro_task is at its filter update (the
\* publish steps, which do not touch the filter, are left out).  fed keeps
\* the pressures fed, the newest first, one more than the history holds
FeedSample(p) ==
    /\ running = "baro"
    /\ pc["baro"] \in {"loop", "alt_try_send"}
    /\ baro_data' = [BaroData(0) EXCEPT !.pressure = p]
    /\ fed' = IF Len(fed) > AltBufferLen
              THEN <<p>> \o SubSeq(fed, 1, AltBufferLen)
              ELSE <<p>> \o fed
    /\ baro_trace' = <<"raw">>
    /\ pc' = [pc EXCEPT !["baro"] = "filter"]
    /\ UNCHANGED <<main_pc, running, chan, unseen, led, clock, imu_data, alt_buffer,
                   alt_avg, send_res, ctl_alt, buf_index, flushed, timer>>
    /\ UNCHANGED <<log_rx, buf_start>>

NextFilter == (\E p \in FedPressures : FeedSample(p)) \/ BaroFilter

SpecFilter == InitFilter /\ [][NextFilter]_vars

(* ======================================================================= *)
(* Properties                                                              *)
(* ======================================================================= *)

(* ---- C1 --------------------------------------------------------------- *)

\* C1: in every reachable state each of the three channels holds between 0
\* and 4 values.
ChannelWithinCapacity ==
    \A c \in Channels : Len(chan[c]) >= 0 /\ Len(chan[c]) <= ChannelCapacity

\* the three channels are at capacity at the same time
AllChannelsFull == \A c \in Channels : Len(chan[c]) = ChannelCapacity

(* ---- C2 --------------------------------------------------------------- *)

\* the publish step of producer t on channel c, of value v, has completed on
\* the overflow path when the task stands at position after
OverflowPublished(t, after) ==
    /\ running = t
    /\ pc[t] = after
    /\ send_res[t] \in {"Sent", "Timeout"}

OverflowOutcome(t, after, c, v) ==
    OverflowPublished(t, after) =>
        \/ send_res[t] = "Sent" /\ chan[c] = <<v>>
        \/ send_res[t] = "Timeout"

\* C2: when a publish that found its channel at capacity completes, the
\* channel holds the new value alone, or the send ended with Timeout; old
\* values never survive beside the new one.
OverflowPolicy ==
    /\ OverflowOutcome("baro", "filter", BARO_DATA_CHANNEL, baro_data)
    /\ OverflowOutcome("baro", "sleep", BARO_ALT_CHANNEL, FilteredAltitude)
    /\ OverflowOutcome("imu", "sleep", IMU_DATA_CHANNEL, imu_data)

\* baro_task has republished a raw sample after clearing the full channel
BaroOverflowResent ==
    /\ OverflowPublished("baro", "filter")
    /\ send_res["baro"] = "Sent"
    /\ chan[BARO_DATA_CHANNEL] = <<baro_data>>

(* ---- C3 --------------------------------------------------------------- *)

\* the time stamps of s are successive clock readings of one producer
Successive(s) ==
    \A i \in 1..(Len(s) - 1) :
        s[i + 1].time_stamp = (s[i].time_stamp + 1) % TsWrap

\* the time stamp of the sample producer t sent last: its current sample,
\* or the one before while the current one is still to be published
LastSent(t, data) ==
    IF pc[t] \in {"try_send", "clear", "send"}
    THEN (data.time_stamp + TsWrap - 1) % TsWrap
    ELSE data.time_stamp

\* s is a run of the samples of producer t up to the last one sent, in the
\* order they were sent
InSendOrder(s, t, data) ==
    /\ Successive(s)
    /\ s # <<>> => s[Len(s)].time_stamp = LastSent(t, data)

\* C3: what log_task has received from a channel in this drain, followed by
\* what the channel still holds, are the samples sent, in the order sent;
\* once log_task has left a drain loop (try_receive returned Empty) it has
\* received them all.
FifoOrder ==
    /\ InSendOrder(log_rx[BARO_DATA_CHANNEL] \o chan[BARO_DATA_CHANNEL],
                   "baro", baro_data)
    /\ InSendOrder(log_rx[IMU_DATA_CHANNEL] \o chan[IMU_DATA_CHANNEL],
                   "imu", imu_data)
    /\ (running = "log" /\ pc["log"] # "loop") => IsEmpty(BARO_DATA_CHANNEL)
    /\ (running = "log" /\ pc["log"] \in {"flush", "sleep"}) => IsEmpty(IMU_DATA_CHANNEL)

\* log_task has drained four raw samples sent into the empty channel
LogDrainedFour ==
    /\ running = "log"
    /\ pc["log"] = "drain_imu"
    /\ Len(log_rx[BARO_DATA_CHANNEL]) = ChannelCapacity
    /\ IsEmpty(BARO_DATA_CHANNEL)

(* ---- C4 --------------------------------------------------------------- *)

\* a step of producer t from its try_send on c, taken with c at capacity,
\* reports Full, keeps the turn and keeps the contents of c
TrySendRefused(t, at, c) ==
    (running = t /\ pc[t] = at /\ IsFull(c)) =>
        /\ chan'[c] = chan[c]
        /\ send_res'[t] = "Full"
        /\ running' = t

\* C4: try_send on a channel that holds 4 values returns Full, does not
\* suspend the caller and leaves the contents of the channel as they were.
TrySendFullKeepsContents ==
    [][/\ TrySendRefused("baro", "try_send", BARO_DATA_CHANNEL)
       /\ TrySendRefused("baro", "alt_try_send", BARO_ALT_CHANNEL)
       /\ TrySendRefused("imu", "try_send", IMU_DATA_CHANNEL)]_vars

\* imu_task stands right after a try_send that found the channel full
ImuTrySendRefused ==
    /\ running = "imu"
    /\ pc["imu"] = "clear"
    /\ send_res["imu"] = "Full"
    /\ Len(chan[IMU_DATA_CHANNEL]) = ChannelCapacity

(* ---- C5 --------------------------------------------------------------- *)

\* producer t stands between a clear and the send that follows it
JustCleared(t, at) == pc[t] = at

\* C5: right after clear() the channel is empty (try_receive returns Empty),
\* whatever it held; and from the failed try_send to the send after the
\* clear the producer keeps its turn, so no other task sees the channel in
\* between.
ClearEmptiesAtomically ==
    /\ JustCleared("baro", "send") => IsEmpty(BARO_DATA_CHANNEL)
    /\ JustCleared("baro", "alt_send") => IsEmpty(BARO_ALT_CHANNEL)
    /\ JustCleared("imu", "send") => IsEmpty(IMU_DATA_CHANNEL)
    /\ \A t \in Producers :
          pc[t] \in {"clear", "send", "alt_clear", "alt_send"} => running = t

\* baro_task has just cleared the altitude channel
AltJustCleared ==
    /\ running = "baro"
    /\ pc["baro"] = "alt_send"
    /\ IsEmpty(BARO_ALT_CHANNEL)

(* ---- C6 --------------------------------------------------------------- *)

\* the step of log_task that ends a drain: the test of the counter
EndsDrain == running = "log" /\ pc["log"] = "flush" /\ pc'["log"] = "sleep"

\* C6: at the end of a drain with counter c, c >= 256 gives exactly one flush
\* in the cycle and the counter c - 256; c < 256 gives no flush and leaves
\* the counter.
FlushBudget ==
    [][EndsDrain =>
          /\ flushed = 0
          /\ IF buf_index >= FlushThreshold
             THEN buf_index' = buf_index - FlushThreshold /\ flushed' = 1
             ELSE buf_index' = buf_index /\ flushed' = 0]_vars

\* a drain that ended with 300 bytes has flushed once and kept 44
FlushedFrom300 ==
    /\ running = "log"
    /\ pc["log"] = "sleep"
    /\ flushed = 1
    /\ buf_index = 300 - FlushThreshold

\* a drain that ended with exactly 256 bytes has flushed once and kept 0
FlushedFrom256 ==
    /\ running = "log"
    /\ pc["log"] = "sleep"
    /\ flushed = 1
    /\ buf_index = 0

(* ---- C7 --------------------------------------------------------------- *)

\* C7: control_task is suspended only in its timer wait (or not yet polled),
\* never at its poll of the altitude channel; the poll can always be taken
\* and the cycle arrives at the timer wait with the poll answered, by a
\* value or by Empty.
ControlNeverWaitsForAltitude ==
    /\ running # "control" => pc["control"] \in {"unspawned", "start", "timer"}
    /\ (running = "control" /\ pc["control"] = "poll") => ENABLED CtlPoll
    /\ (running = "control" /\ pc["control"] = "sleep") => ctl_alt \in {"Ok", "Empty"}

\* a control cycle arrives at its timer wait after polling an empty channel
ControlCycleWithoutAltitude ==
    /\ running = "control"
    /\ pc["control"] = "sleep"
    /\ ctl_alt = "Empty"
    /\ IsEmpty(BARO_ALT_CHANNEL)

(* ---- C8 --------------------------------------------------------------- *)

\* no producer stands on an overflow path, and a try_send of a raw sample
\* finds room
NoOverflow ==
    /\ \A t \in Producers :
          /\ pc[t] \notin {"clear", "send", "alt_clear", "alt_send"}
          /\ send_res[t] \in {"None", "Ok"}
    /\ (running = "baro" /\ pc["baro"] = "try_send") => ~IsFull(BARO_DATA_CHANNEL)
    /\ (running = "imu" /\ pc["imu"] = "try_send") => ~IsFull(IMU_DATA_CHANNEL)

\* C8: with the configured periods and task bodies that take no time, the
\* raw channels are never at capacity when their producer sends, so no raw
\* sample is cleared or dropped, and every queued raw sample is eventually
\* received by log_task.
NoLossUnderNormalLoad ==
    /\ []NoOverflow
    /\ ~IsEmpty(BARO_DATA_CHANNEL) ~> IsEmpty(BARO_DATA_CHANNEL)
    /\ ~IsEmpty(IMU_DATA_CHANNEL) ~> IsEmpty(IMU_DATA_CHANNEL)

\* log_task has received the second sample of each producer in one drain
LogReceivedSecondSamples ==
    /\ running = "log"
    /\ pc["log"] = "flush"
    /\ log_rx[BARO_DATA_CHANNEL] = <<BaroData(1)>>
    /\ log_rx[IMU_DATA_CHANNEL] = <<ImuData(1)>>

(* ---- C9 --------------------------------------------------------------- *)

\* task t is at the end of a cycle, about to wait for its timer
CycleDone(t) == running = t /\ pc[t] = "sleep"

\* a task that holds the turn runs on to its next await
TurnsRunOn == WF_vars(MainStep \/ TaskStep)

\* the executor polls task t again and again: its timers elapse and the
\* executor is fair to it
PolledForever(t) == SF_vars(Wake(t))

\* C9: under a fair executor every task completes cycles again and again;
\* no failure (a full channel, a timed-out send) stops a task, whatever the
\* other tasks do.
TasksRunForever ==
    \A t \in Tasks : (TurnsRunOn /\ PolledForever(t)) => []<>CycleDone(t)

\* baro_task completes a cycle in which the altitude channel overflowed
BaroCycleAfterOverflow ==
    /\ CycleDone("baro")
    /\ send_res["baro"] = "Sent"
    /\ chan[BARO_ALT_CHANNEL] = <<FilteredAltitude>>

(* ---- C10 -------------------------------------------------------------- *)

\* the actuation step of a control cycle
Actuates == running = "control" /\ pc["control"] = "loop" /\ pc'["control"] = "poll"

\* C10: every actuation step leaves the output at a level different from the
\* one the previous cycle (or main) left it at.
LedTogglesEachCycle == [][Actuates => led' # led]_vars

(* ---- C11: a spawn failure is fatal ------------------------------------ *)

\* the tasks spawned before the i-th spawn, none of them polled yet, and no
\* other task
SpawnedBefore(i) ==
    \A j \in 1..Len(SpawnOrder) :
        pc[SpawnOrder[j]] = IF j < i THEN "start" ELSE "unspawned"

\* C11: a failed spawn aborts initialization at that spawn: the program is
\* halted for good with exactly the tasks of the earlier spawns spawned and
\* none of them polled, so "All tasks spawned" is not reached; that position is
\* reached only with all four tasks spawned.
SpawnFailureIsFatal ==
    /\ main_pc \in {"all_spawned", "done"} => \A t \in Tasks : pc[t] # "unspawned"
    /\ main_pc = "panicked" <=> running = "halted"
    /\ main_pc = "panicked" =>
          /\ \E i \in 1..Len(SpawnOrder) : SpawnedBefore(i)
          /\ ~ENABLED NextSpawn

\* the spawn of imu_task failed after control_task and baro_task were spawned
SpawnAbortedAtImu ==
    /\ main_pc = "panicked"
    /\ pc["baro"] = "start"
    /\ pc["imu"] = "unspawned"

(* ---- C12: log_task drains both channels in every cycle ----------------- *)

\* the bytes log_task counted for the samples it received in this cycle
ReceivedBytes ==
    BaroRecordSize * Len(log_rx[BARO_DATA_CHANNEL])
        + ImuRecordSize * Len(log_rx[IMU_DATA_CHANNEL])

\* C12: when log_task is about to suspend on its 50 ms timer both raw channels
\* are empty, and all through a cycle the byte counter is its value at the
\* start of the cycle plus 12 for each barometric and 40 for each inertial
\* sample received so far in the cycle (less the 256 of a flush).
LogDrainsFully ==
    /\ CycleDone("log") =>
          /\ IsEmpty(BARO_DATA_CHANNEL)
          /\ IsEmpty(IMU_DATA_CHANNEL)
    /\ running = "log" =>
          buf_index + FlushThreshold * flushed = buf_start + ReceivedBytes
    /\ running # "log" => buf_index = buf_start

\* log_task ends a cycle in which it received two barometric and two
\* inertial samples, after earlier cycles had left bytes in the counter
LogDrainedBoth ==
    /\ CycleDone("log")
    /\ buf_start > 0
    /\ Len(log_rx[BARO_DATA_CHANNEL]) = 2
    /\ Len(log_rx[IMU_DATA_CHANNEL]) = 2

(* ---- C13: control_task takes at most one altitude per cycle ------------ *)

\* C13: a step of control_task changes BARO_ALT_CHANNEL only by removing the
\* value at its head, and only when control_task has not received in this
\* cycle; the mark of that receive stays until control_task suspends on its
\* 100 ms timer.  So between two timer waits at most one value is removed,
\* however many are queued.
ControlTakesOneHead ==
    [][/\ (running = "control" /\ chan'[BARO_ALT_CHANNEL] # chan[BARO_ALT_CHANNEL]) =>
             /\ ctl_alt = "None"
             /\ ctl_alt' = "Ok"
             /\ ~IsEmpty(BARO_ALT_CHANNEL)
             /\ chan'[BARO_ALT_CHANNEL] = Tail(chan[BARO_ALT_CHANNEL])
       /\ ctl_alt # "None" =>
             \/ ctl_alt' = ctl_alt
             \/ /\ ctl_alt' = "None"
                /\ pc["control"] = "sleep"
                /\ pc'["control"] = "timer"]_vars

\* control_task has received one altitude and goes to its timer with three
\* more still queued
ControlLeftAltitudesQueued ==
    /\ CycleDone("control")
    /\ ctl_alt = "Ok"
    /\ Len(chan[BARO_ALT_CHANNEL]) = ChannelCapacity - 1

(* ---- C14: values are received in production order, once ---------------- *)

\* the time stamp of the raw sample whose altitude baro_task sent last: the
\* current sample's, or the one before while the altitude of the current one
\* is still to be published
LastAltSent ==
    IF pc["baro"] \in {"try_send", "clear", "send", "filter",
                       "alt_try_send", "alt_clear", "alt_send"}
    THEN (baro_data.time_stamp + TsWrap - 1) % TsWrap
    ELSE baro_data.time_stamp

\* C14: number the values of a channel in the order they were sent, N being
\* the number of the last one sent.  What log_task received in this cycle,
\* followed by the queue, is a run of successive values ending with the last
\* one sent, so a queue of n values holds the numbers N-n+1 .. N, head first.
\* The last value received has the number N - unseen.  The queue never holds
\* more than unseen values: the value received next, the head, has a higher
\* number than every value received before, and only values that were sent
\* are received, also after clears have discarded values in between.
ReceivedInProductionOrder ==
    /\ \A c \in Channels : Len(chan[c]) <= unseen[c]
    /\ InSendOrder(log_rx[BARO_DATA_CHANNEL] \o chan[BARO_DATA_CHANNEL],
                   "baro", baro_data)
    /\ InSendOrder(log_rx[IMU_DATA_CHANNEL] \o chan[IMU_DATA_CHANNEL],
                   "imu", imu_data)
    /\ Successive(chan[BARO_ALT_CHANNEL])
    /\ ~IsEmpty(BARO_ALT_CHANNEL) =>
          chan[BARO_ALT_CHANNEL][Len(chan[BARO_ALT_CHANNEL])].time_stamp = LastAltSent
    /\ \A i \in 1..Len(chan[BARO_ALT_CHANNEL]) :
          chan[BARO_ALT_CHANNEL][i].alt = 0

\* log_task has received two inertial samples in this cycle, while altitudes
\* sent after the last one control_task received were discarded by a clear
\* and one sent since is queued
ReceivedAcrossClear ==
    /\ running = "log"
    /\ Len(log_rx[IMU_DATA_CHANNEL]) = 2
    /\ unseen[BARO_ALT_CHANNEL] = ChannelCapacity
    /\ Len(chan[BARO_ALT_CHANNEL]) = 1

(* ---- C15: clear() is overflow recovery only ---------------------------- *)

ProducerOf(c) == IF c = IMU_DATA_CHANNEL THEN "imu" ELSE "baro"

ConsumerOf(c) == IF c = BARO_ALT_CHANNEL THEN "control" ELSE "log"

\* the position of the producer at its try_send on c
TrySendAt(c) == IF c = BARO_ALT_CHANNEL THEN "alt_try_send" ELSE "try_send"

\* the position of the producer at its clear of c
ClearAt(c) == IF c = BARO_ALT_CHANNEL THEN "alt_clear" ELSE "clear"

\* a step in which the consumer of c receives its head
Receives(c) ==
    /\ running = ConsumerOf(c)
    /\ ~IsEmpty(c)
    /\ chan'[c] = Tail(chan[c])

\* a step in which the producer of c queues one value
Sends(c) ==
    /\ running = ProducerOf(c)
    /\ Len(chan'[c]) = Len(chan[c]) + 1
    /\ SubSeq(chan'[c], 1, Len(chan[c])) = chan[c]

\* a step that discards queued values of c: any other change of the queue
Discards(c) == chan'[c] # chan[c] /\ ~Receives(c) /\ ~Sends(c)

\* C15: a step discards values of a channel only as the clear of the
\* channel's producer, on a full channel, and it discards them all.  The
\* producer comes to its clear only by its own try_send on that channel
\* finding it full, keeps its turn in that step, and whenever it is at the
\* clear it is the running task with the result Full in hand: the clear is its
\* next step, no suspension and no other task in between.
ClearOnlyOnOverflow ==
    [][\A c \in Channels :
          /\ Discards(c) =>
                /\ running = ProducerOf(c)
                /\ pc[ProducerOf(c)] = ClearAt(c)
                /\ chan'[c] = <<>>
          /\ pc[ProducerOf(c)] = ClearAt(c) =>
                /\ running = ProducerOf(c)
                /\ send_res[ProducerOf(c)] = "Full"
                /\ IsFull(c)
                /\ Discards(c)
          /\ (pc'[ProducerOf(c)] = ClearAt(c) /\ pc[ProducerOf(c)] # ClearAt(c)) =>
                /\ running = ProducerOf(c)
                /\ running' = ProducerOf(c)
                /\ pc[ProducerOf(c)] = TrySendAt(c)
                /\ IsFull(c)
                /\ chan'[c] = chan[c]]_vars

\* imu_task has cleared the full inertial channel after its try_send
\* returned Full and is at the send that follows
ImuClearedOnOverflow ==
    /\ running = "imu"
    /\ pc["imu"] = "send"
    /\ send_res["imu"] = "Full"
    /\ IsEmpty(IMU_DATA_CHANNEL)

(* ---- C16: the order of a barometer cycle ------------------------------- *)

\* what baro_task has done in its cycle when it is at position p: the publish
\* attempt of the raw sample, the filter update, the publish attempt of the
\* altitude
DoneAt(p) ==
    CASE p \in {"try_send"} -> <<>>
      [] p \in {"clear", "send", "filter"} -> <<"raw">>
      [] p \in {"alt_try_send"} -> <<"raw", "filter">>
      [] p \in {"alt_clear", "alt_send", "sleep"} -> <<"raw", "filter", "alt">>
      [] OTHER -> <<>>

\* C16: in every cycle baro_task attempts the publish of the raw sample,
\* then updates the filter, then attempts the publish of the altitude, each
\* once and in this order, whichever way the raw publish went; from the
\* filter update on the newest slot of the history is the conversion of this
\* sample's pressure, and at the end of the cycle the altitude queued last is
\* the mean computed from this sample.  After the cycle it waits on its
\* 500 ms timer.
BaroCycleOrder ==
    /\ baro_trace = DoneAt(pc["baro"])
    /\ pc["baro"] \in {"alt_try_send", "alt_clear", "alt_send", "sleep"} =>
          /\ alt_buffer[1] = PressureToAltitude(baro_data.pressure)
          /\ alt_avg = FilterMean(alt_buffer)
    /\ CycleDone("baro") =>
          /\ ~IsEmpty(BARO_ALT_CHANNEL)
          /\ chan[BARO_ALT_CHANNEL][Len(chan[BARO_ALT_CHANNEL])] = FilteredAltitude
    /\ pc["baro"] = "timer" =>
          /\ running # "baro"
          /\ timer["baro"] = BaroPeriod

\* baro_task has updated the filter for a raw sample that it published by
\* the overflow path (clear and resend)
FilteredAfterOverflow ==
    /\ running = "baro"
    /\ pc["baro"] = "alt_try_send"
    /\ send_res["baro"] = "Sent"
    /\ baro_trace = <<"raw", "filter">>

(* ---- C17: the window of the altitude filter ---------------------------- *)

\* the history that holds the conversions of the pressures ps, the newest
\* first, in its first slots and 0 in the others
HistoryOf(ps) ==
    [i \in 1..AltBufferLen |->
        IF i <= Len(ps) THEN PressureToAltitude(ps[i]) ELSE 0]

\* the first AltBufferLen of ps
NewestOf(ps) == IF Len(ps) > AltBufferLen THEN SubSeq(ps, 1, AltBufferLen) ELSE ps

\* C17: after a filter update the history holds the conversions of the last
\* min(k, 10) pressures fed, the newest in slot 0 and in reverse order of
\* arrival, the other slots 0 (before the update it holds those of the
\* samples before this one: the update shifts every entry by one slot and
\* drops the oldest), and the output is the sum of the ten slots divided by
\* ten; after ten samples at the reference pressure in a row the output is 0.
FilterWindow ==
    /\ pc["baro"] = "filter" => alt_buffer = HistoryOf(NewestOf(Tail(fed)))
    /\ pc["baro"] = "alt_try_send" =>
          /\ alt_buffer = HistoryOf(NewestOf(fed))
          /\ alt_avg * AltBufferLen = SumSeq(alt_buffer)
          /\ (/\ Len(fed) >= AltBufferLen
              /\ \A i \in 1..AltBufferLen : fed[i] = SeaLevelPressure) => alt_avg = 0

\* ten samples at the reference pressure were fed after one at pressure 0:
\* the history is fully replaced and the output is 0
HistoryReplaced ==
    /\ pc["baro"] = "alt_try_send"
    /\ Len(fed) = AltBufferLen + 1
    /\ fed[AltBufferLen + 1] = 0
    /\ \A i \in 1..AltBufferLen : fed[i] = SeaLevelPressure
    /\ alt_avg = 0

(* ---- C18: tasks share state only through the channels ------------------ *)

\* C18: the locals of a task change only in steps of that task: the sample,
\* the filter history, the mean and the record of the filter updates in
\* steps of baro_task, the inertial sample in steps of imu_task, the byte
\* counter in steps of log_task, the indicator output in steps of
\* control_task.  A channel changes only in steps of its producer or its
\* consumer, and a step that changes one channel leaves the other two as
\* they were.
TaskFrame ==
    [][/\ (\/ alt_buffer' # alt_buffer
           \/ alt_avg' # alt_avg
           \/ baro_data' # baro_data
           \/ baro_trace' # baro_trace) => running = "baro"
       /\ imu_data' # imu_data => running = "imu"
       /\ (buf_index' # buf_index \/ log_rx' # log_rx) => running = "log"
       /\ (led' # led \/ ctl_alt' # ctl_alt) => running = "control"
       /\ \A c \in Channels :
             chan'[c] # chan[c] =>
                /\ running \in {ProducerOf(c), ConsumerOf(c)}
                /\ \A d \in Channels \ {c} : chan'[d] = chan[d]]_vars

\* log_task has received a barometric sample and counted it while the other
\* two channels hold values and control_task has driven the output
LogReceivedBesideQueues ==
    /\ running = "log"
    /\ Len(log_rx[BARO_DATA_CHANNEL]) = 1
    /\ buf_index = buf_start + BaroRecordSize
    /\ IsFull(IMU_DATA_CHANNEL)
    /\ Len(chan[BARO_ALT_CHANNEL]) = 2
    /\ led = "Low"

(* ---- C19: the resend after a clear succeeds at once -------------------- *)

\* the value queued last on c
Newest(c) == chan[c][Len(chan[c])]

\* C19: no send of a producer ends in Timeout.  A producer at the send after
\* a clear is the running task and the channel is empty, so the first poll of
\* the send queues the value; a producer that is not running waits on its
\* timer (or for its first poll), never inside a publish step.  So every
\* sample is queued in its cycle: right after its publish step the raw
\* sample, the inertial sample and the altitude are the newest value of
\* their channel.
ResendNeverTimesOut ==
    /\ \A t \in Producers : send_res[t] # "Timeout"
    /\ \A c \in Channels :
          pc[ProducerOf(c)] = (IF c = BARO_ALT_CHANNEL THEN "alt_send" ELSE "send") =>
             /\ running = ProducerOf(c)
             /\ IsEmpty(c)
    /\ \A t \in Producers : running # t => pc[t] \in {"unspawned", "start", "timer"}
    /\ pc["baro"] = "filter" =>
          ~IsEmpty(BARO_DATA_CHANNEL) /\ Newest(BARO_DATA_CHANNEL) = baro_data
    /\ pc["baro"] = "sleep" =>
          ~IsEmpty(BARO_ALT_CHANNEL) /\ Newest(BARO_ALT_CHANNEL) = FilteredAltitude
    /\ pc["imu"] = "sleep" =>
          ~IsEmpty(IMU_DATA_CHANNEL) /\ Newest(IMU_DATA_CHANNEL) = imu_data

\* imu_task ends a cycle in which it cleared the full channel and the send
\* that followed queued the sample
ImuResent ==
    /\ CycleDone("imu")
    /\ send_res["imu"] = "Sent"
    /\ chan[IMU_DATA_CHANNEL] = <<imu_data>>

(* ---- C20: the byte counter is bounded ---------------------------------- *)

\* the most a drain can add: ChannelCapacity samples of each raw channel
DrainMax == ChannelCapacity * (BaroRecordSize + ImuRecordSize)

\* C20: a drain receives at most ChannelCapacity values from each channel,
\* so the counter never exceeds 255 + 208 = 463 and is the plain sum of what
\* was counted (the u16 does not wrap); one flush per cycle brings it below
\* 256 again, where it is whenever log_task suspends or is suspended.
CounterBounded ==
    /\ \A c \in {BARO_DATA_CHANNEL, IMU_DATA_CHANNEL} : Len(log_rx[c]) <= ChannelCapacity
    /\ buf_index <= FlushThreshold - 1 + DrainMax
    /\ buf_index = buf_start + ReceivedBytes - FlushThreshold * flushed
    /\ flushed <= 1
    /\ buf_start < FlushThreshold
    /\ (running # "log" \/ pc["log"] = "sleep") => buf_index < FlushThreshold

\* log_task has drained four samples from each channel in one cycle,
\* starting from a counter of 252: the counter is at 460, the most it reaches
CounterAtMost ==
    /\ running = "log"
    /\ pc["log"] = "flush"
    /\ Len(log_rx[BARO_DATA_CHANNEL]) = ChannelCapacity
    /\ Len(log_rx[IMU_DATA_CHANNEL]) = ChannelCapacity
    /\ buf_index = FlushThreshold - 4 + DrainMax

====
